---- MODULE Spec2Model ----
(***************************************************************************)
(* A model of `each`: the CachedReader (src/src/readers.rs), the format    *)
(* matcher guess_format and the driver run (src/src/main.rs), and the      *)
(* per-record scheduler process (src/src/main.rs).                         *)
(*                                                                         *)
(* Three specifications share the module:                                  *)
(*   SpecReader  a CachedReader under arbitrary read and rewind calls      *)
(*   SpecRun     one execution of run() over its command line              *)
(*   SpecProc    one call of process() on a rayon pool                     *)
(***************************************************************************)
EXTENDS Integers, Sequences, FiniteSets, TLC

\* ------------------------------------------------------------------------
\* Program constants and model bounds
\* ------------------------------------------------------------------------

\* readers.rs: pub const CACHE_LEN: usize = 4096
CACHE_LEN == 4096

\* SpecReader: the source holds up to CACHE_LEN + SrcExtra bytes
SrcExtra == 3
\* SpecReader: at most MaxCalls read calls are issued on one reader
MaxCalls == 4
\* SpecReader: at most MaxRewinds rewind calls are issued on one reader
MaxRewinds == 2
\* SpecRun: at most MaxInputs input files are named on the command line
MaxInputs == 2

\* Option<T>
None == <<>>
Some(x) == <<x>>

\* The elements of a sequence
Range(q) == {q[k] : k \in 1..Len(q)}

Min(a, b) == IF a < b THEN a ELSE b
Max(a, b) == IF a > b THEN a ELSE b

\* ------------------------------------------------------------------------
\* The underlying byte source (Box<dyn Read>): its data and read position
\* ------------------------------------------------------------------------

\* The byte at offset i of the SpecReader source: bytes are u8
SrcByte(i) == i % 256

SrcData(n) == [i \in 1..n |-> SrcByte(i - 1)]

NewSource(data) == [data |-> data, pos |-> 0]

Remaining(src) == Len(src.data) - src.pos

\* Result<usize, std::io::Error> of a read
IoErr == [ok |-> FALSE, len |-> 0]
IoOk(k) == [ok |-> TRUE, len |-> k]

\* What one call of the underlying read may answer for a buffer of n bytes:
\* an error, or a count k of bytes with 0 <= k <= n, which is 0 only at end
\* of input or for an empty buffer (std::io::Read). Short reads are covered
\* by the counts 1, m - 1 and m, where m is the most the call could return.
SrcOutcomes(src, n) ==
    LET m == Min(n, Remaining(src))
    IN  {IoErr} \cup {IoOk(k) : k \in (IF m = 0 THEN {0} ELSE {1, Max(1, m - 1), m})}

\* reader.read(buf) answering Ok(k): the k bytes at the read position
SrcBytes(src, k) == SubSeq(src.data, src.pos + 1, src.pos + k)

SrcAdvance(src, k) == [src EXCEPT !.pos = @ + k]

\* ------------------------------------------------------------------------
\* CachedReader (readers.rs)
\* ------------------------------------------------------------------------

\* CachedReader::new
CachedReaderNew(src) == [buffer |-> <<>>, index |-> 0, reader |-> src]

\* CachedReader::rewind
Rewind(r) == [r EXCEPT !.index = 0]

\* ReadCached with the slice taken from the start of the buffer instead of
\* from the cursor
ReadCachedFromStart(r, n) ==
    LET to_read == Min(Len(r.buffer) - r.index, n)
    IN  [rd     |-> [r EXCEPT !.index = @ + to_read],
         ok     |-> TRUE,
         bytes  |-> SubSeq(r.buffer, 1, to_read),
         called |-> FALSE]

\* The first branch of CachedReader::read: the cursor is inside the buffer
ReadCached(r, n) ==
    LET to_read == Min(Len(r.buffer) - r.index, n)
    IN  [rd     |-> [r EXCEPT !.index = @ + to_read],
         ok     |-> TRUE,
         bytes  |-> SubSeq(r.buffer, r.index + 1, r.index + to_read),
         called |-> FALSE]

\* ReadLive with the cursor moved by the length of buf before the result of
\* the underlying read is matched
ReadLiveCountsFailed(r, n, res) ==
    IF ~res.ok
    THEN [rd |-> [r EXCEPT !.index = @ + n], ok |-> FALSE, bytes |-> <<>>, called |-> TRUE]
    ELSE LET got == SrcBytes(r.reader, res.len)
         IN  [rd     |-> [buffer |-> IF r.index < CACHE_LEN
                                      THEN r.buffer \o got
                                      ELSE r.buffer,
                          index  |-> r.index + res.len,
                          reader |-> SrcAdvance(r.reader, res.len)],
              ok     |-> TRUE,
              bytes  |-> got,
              called |-> TRUE]

\* ReadLive without `self.index += len`
ReadLiveNoAdvance(r, n, res) ==
    IF ~res.ok
    THEN [rd |-> r, ok |-> FALSE, bytes |-> <<>>, called |-> TRUE]
    ELSE LET got == SrcBytes(r.reader, res.len)
         IN  [rd     |-> [buffer |-> IF r.index < CACHE_LEN
                                      THEN r.buffer \o got
                                      ELSE r.buffer,
                          index  |-> r.index,
                          reader |-> SrcAdvance(r.reader, res.len)],
              ok     |-> TRUE,
              bytes  |-> got,
              called |-> TRUE]

\* The second branch of CachedReader::read: the underlying reader is called
\* and answers res, Err(e) or Ok(len)
ReadLive(r, n, res) ==
    IF ~res.ok
    THEN [rd |-> r, ok |-> FALSE, bytes |-> <<>>, called |-> TRUE]
    ELSE LET got == SrcBytes(r.reader, res.len)
         IN  [rd     |-> [buffer |-> IF r.index < CACHE_LEN
                                      THEN r.buffer \o got
                                      ELSE r.buffer,
                          index  |-> r.index + res.len,
                          reader |-> SrcAdvance(r.reader, res.len)],
              ok     |-> TRUE,
              bytes  |-> got,
              called |-> TRUE]

\* CachedReader::read without its first branch: every call goes to the
\* underlying reader
CachedReadAlwaysLive(r, n, res) == ReadLive(r, n, res)

\* CachedReader::read with a buffer of n bytes
CachedRead(r, n, res) ==
    IF r.index < Len(r.buffer)
    THEN ReadCached(r, n)
    ELSE ReadLive(r, n, res)

\* ------------------------------------------------------------------------
\* Bytes of the inputs of SpecRun
\* ------------------------------------------------------------------------

\* The ASCII codes the inputs are written in
Ascii == [nul |-> 0, tab |-> 9, nl |-> 10, comma |-> 44, zero |-> 48, one |-> 49, two |-> 50,
          lbracket |-> 91, rbracket |-> 93, a |-> 97, b |-> 98, lbrace |-> 123,
          rbrace |-> 125, eacute |-> 233]

\* The contents an input file or the standard input may have
Contents ==
    [ csv     |-> <<Ascii.a, Ascii.comma, Ascii.b, Ascii.nl,
                    Ascii.one, Ascii.comma, Ascii.two, Ascii.nl,
                    Ascii.two, Ascii.comma, Ascii.one, Ascii.nl,
                    Ascii.one, Ascii.comma, Ascii.one, Ascii.nl>>,
      tsv     |-> <<Ascii.a, Ascii.tab, Ascii.b, Ascii.nl,
                    Ascii.one, Ascii.tab, Ascii.two, Ascii.nl>>,
      json    |-> <<Ascii.lbracket, Ascii.one, Ascii.comma, Ascii.two, Ascii.rbracket>>,
      pretty  |-> <<Ascii.lbracket, Ascii.nl, Ascii.one, Ascii.nl, Ascii.rbracket,
                    Ascii.nl>>,
      object  |-> <<Ascii.lbrace, Ascii.rbrace>>,
      ragged  |-> <<Ascii.a, Ascii.comma, Ascii.b, Ascii.nl, Ascii.one, Ascii.nl>>,
      text    |-> <<Ascii.b, Ascii.a>>,
      empty   |-> <<>> ]

ContentIds == DOMAIN Contents

\* ------------------------------------------------------------------------
\* The formats (formats/json.rs, formats/csv.rs) and their registry
\* ------------------------------------------------------------------------

\* load_formats / main: the registry, in registration order
FormatIds == <<"json", "csv">>

NoFormat == "none"

\* Format::get_extensions: JSON_EXTS and CSV_EXTS
Extensions(id) == IF id = "json" THEN {"json"} ELSE {"csv"}

\* Result<bool, Error>
BoolOk(v) == [ok |-> TRUE, val |-> v]

\* Json::is_valid_header
JsonIsValidHeader(header) ==
    BoolOk(header[1] = Ascii.lbracket \/ header[1] = Ascii.lbrace)

SetMin(S) == CHOOSE x \in S : \A y \in S : x <= y

\* The elements of a finite set of numbers in increasing order
RECURSIVE Sorted(_)
Sorted(S) == IF S = {} THEN <<>> ELSE <<SetMin(S)>> \o Sorted(S \ {SetMin(S)})

\* The lines of the bytes b that hold a record, in order, each by the
\* positions of its first and last byte: the records of a CSV reader are
\* separated by line feeds, and the reader skips empty lines
Lines(b) ==
    LET nls    == {i \in 1..Len(b) : b[i] = Ascii.nl}
        starts == {s \in {1} \cup {i + 1 : i \in nls} : s <= Len(b) /\ s \notin nls}
        first  == Sorted(starts)
    IN  [k \in 1..Len(first) |->
            [s |-> first[k],
             e |-> SetMin({i \in nls : i > first[k]} \cup {Len(b) + 1}) - 1]]

\* The number of fields of the record on a line
FieldCount(b, line, delimiter) ==
    1 + Cardinality({i \in line.s..line.e : b[i] = delimiter})

\* Csv::is_valid_header: with has_headers(true) the first record is the
\* header row; the answer is whether the record after it deserializes, which
\* fails when its field count differs from the header's; with no record after
\* the header row the answer is false
CsvIsValidHeader(header, delimiter) ==
    LET lines == Lines(header)
    IN  IF Len(lines) < 2
        THEN BoolOk(FALSE)
        ELSE BoolOk(FieldCount(header, lines[2], delimiter)
                       = FieldCount(header, lines[1], delimiter))

\* Format::is_valid_header of the registered format id; csv is the Csv
\* configured by set_arguments
IsValidHeader(id, header, csv) ==
    IF id = "json" THEN JsonIsValidHeader(header)
    ELSE CsvIsValidHeader(header, csv.delimiter)

SetMax(S) == CHOOSE x \in S : \A y \in S : x >= y

\* The registered format ids
Registry == {FormatIds[i] : i \in 1..Len(FormatIds)}

\* FirstFormat taking the last of the formats instead of the first
LastFormat(matching) ==
    IF \E i \in 1..Len(FormatIds) : FormatIds[i] \in matching
    THEN FormatIds[SetMax({i \in 1..Len(FormatIds) : FormatIds[i] \in matching})]
    ELSE NoFormat

\* `for (_, format) in formats { if ... { return Some(format) } }`: the
\* first format, in registration order, among those that match
FirstFormat(matching) ==
    IF \E i \in 1..Len(FormatIds) : FormatIds[i] \in matching
    THEN FormatIds[SetMin({i \in 1..Len(FormatIds) : FormatIds[i] \in matching})]
    ELSE NoFormat

\* `let mut header = [0; CACHE_LEN]` after reader.read(&mut header) stored
\* the bytes it returned
Header(bytes) ==
    bytes \o [i \in 1..(CACHE_LEN - Len(bytes)) |-> Ascii.nul]

NoExt == "none"

\* guess_format, first loop: the format of the extension
GuessByExtension(ext) ==
    IF ext = NoExt THEN NoFormat
    ELSE FirstFormat({id \in Registry : ext \in Extensions(id)})

\* What guess_format returns and does: the format (or none), the reader
\* after the call, whether it read from the reader, the bytes the read
\* stored in the header, and what each format it asked answered
Guess(fmt, r, sniffed, bytes, answers) ==
    [format |-> fmt, rd |-> r, sniffed |-> sniffed, header |-> bytes,
     answers |-> answers]

\* The first format, in registration order, that answered Ok(true)
FirstValid(answer) == FirstFormat({id \in Registry : answer[id].ok /\ answer[id].val})

\* GuessByContent without reader.rewind()
GuessByContentNoRewind(r, config, res) ==
    LET c      == CachedRead(r, CACHE_LEN, res)
        header == Header(c.bytes)
        answer == [id \in Registry |->
                      IsValidHeader(id, header, config)]
    IN  IF c.ok
        THEN Guess(FirstValid(answer), c.rd, TRUE, c.bytes, Some(answer))
        ELSE Guess(NoFormat, c.rd, TRUE, <<>>, None)

\* guess_format, second part: one read of CACHE_LEN bytes, a rewind, and the
\* first format that recognises the header; res is the answer of the
\* underlying source if the read reaches it
GuessByContent(r, config, res) ==
    LET c      == CachedRead(r, CACHE_LEN, res)
        header == Header(c.bytes)
        answer == [id \in Registry |->
                      IsValidHeader(id, header, config)]
    IN  IF c.ok
        THEN Guess(FirstValid(answer), Rewind(c.rd), TRUE, c.bytes, Some(answer))
        ELSE Guess(NoFormat, c.rd, TRUE, <<>>, None)

\* guess_format without the second part when an extension is given
GuessFormatNoFallback(ext, r, config, res) ==
    IF ext # NoExt
    THEN Guess(GuessByExtension(ext), r, FALSE, <<>>, None)
    ELSE GuessByContent(r, config, res)

\* guess_format
GuessFormat(ext, r, config, res) ==
    IF GuessByExtension(ext) # NoFormat
    THEN Guess(GuessByExtension(ext), r, FALSE, <<>>, None)
    ELSE GuessByContent(r, config, res)

\* ------------------------------------------------------------------------
\* Decoding (Format::parse) and encoding (Format::write)
\* ------------------------------------------------------------------------

\* serde_json::Value: an object with its fields in order (each a key and a
\* value), a number, or a string
Object(fields) == [kind |-> "object", fields |-> fields, num |-> 0, text |-> <<>>]
Number(n) == [kind |-> "number", fields |-> <<>>, num |-> n, text |-> <<>>]
String(t) == [kind |-> "string", fields |-> <<>>, num |-> 0, text |-> t]

\* Result<Vec<serde_json::Value>, Error>
ParseOk(values) == [ok |-> TRUE, values |-> values, row |-> 0]
ParseErr(row) == [ok |-> FALSE, values |-> <<>>, row |-> row]

IsDigit(c) == c \in {Ascii.zero, Ascii.one, Ascii.two}

\* Json::parse after read_to_string: serde_json::from_str into a vector of
\* values, for the documents of Contents: an array of numbers, with or
\* without line feeds between its tokens, is a vector of records, any other
\* document is an error
JsonParse(text) ==
    LET bytes == SelectSeq(text, LAMBDA c : c # Ascii.nl)
        n     == Len(bytes)
        body  == SubSeq(bytes, 2, n - 1)
    IN  IF /\ n >= 2 /\ bytes[1] = Ascii.lbracket /\ bytes[n] = Ascii.rbracket
           /\ \/ body = <<>>
              \/ /\ Len(body) % 2 = 1
                 /\ \A i \in 1..Len(body) :
                       IF i % 2 = 1 THEN IsDigit(body[i]) ELSE body[i] = Ascii.comma
        THEN ParseOk([k \in 1..((Len(body) + 1) \div 2) |->
                         Number(body[2 * k - 1] - Ascii.zero)])
        ELSE ParseErr(0)

\* The fields of one line
RECURSIVE SplitFields(_, _)
SplitFields(line, delimiter) ==
    IF \E i \in 1..Len(line) : line[i] = delimiter
    THEN LET p == SetMin({i \in 1..Len(line) : line[i] = delimiter})
         IN  <<SubSeq(line, 1, p - 1)>>
                \o SplitFields(SubSeq(line, p + 1, Len(line)), delimiter)
    ELSE <<line>>

\* reader.records() with has_headers(false): the records of the input
CsvRecords(bytes, delimiter) ==
    LET lines == Lines(bytes)
    IN  [k \in 1..Len(lines) |->
            SplitFields(SubSeq(bytes, lines[k].s, lines[k].e), delimiter)]

\* The first n fields of a row, with empty fields where the row has none
FitTo(row, n) == [j \in 1..n |-> IF j <= Len(row) THEN row[j] ELSE <<>>]

\* Csv::parse with every row cut or filled to the length of the header
CsvParsePadded(bytes, csv) ==
    LET rows   == CsvRecords(bytes, csv.delimiter)
        header == rows[1]
    IN  IF Len(rows) = 0 THEN ParseErr(0)
        ELSE ParseOk([i \in 1..(Len(rows) - 1) |->
                        Object([j \in 1..Len(header) |->
                                  <<header[j],
                                    String(FitTo(rows[i + 1], Len(header))[j])>>])])

\* Csv::parse: the first record is the header; a later record whose field
\* count differs from the header's is an error (of the reader, which is not
\* flexible, at `result?`, before the function's own comparison), row being
\* its index among the data rows, from 0
CsvParse(bytes, csv) ==
    LET rows   == CsvRecords(bytes, csv.delimiter)
        header == rows[1]
        bad    == {i \in 2..Len(rows) : Len(rows[i]) # Len(header)}
    IN  IF Len(rows) = 0 THEN ParseErr(0)
        ELSE IF bad # {} THEN ParseErr(SetMin(bad) - 2)
        ELSE ParseOk([i \in 1..(Len(rows) - 1) |->
                        Object([j \in 1..Len(header) |->
                                  <<header[j], String(rows[i + 1][j])>>])])

\* Format::parse on the bytes the reader delivered
Decode(id, bytes, csv) ==
    IF id = "json" THEN JsonParse(bytes) ELSE CsvParse(bytes, csv)

\* The buffer the decoders read with: larger than CACHE_LEN (the csv reader's
\* buffer is 8 KiB, read_to_string grows its own)
ParseBufLen == 2 * CACHE_LEN

\* The decoder reads the CachedReader to the end of the input
RECURSIVE ReadAll(_, _)
ReadAll(r, acc) ==
    LET c == CachedRead(r, ParseBufLen, IoOk(Min(ParseBufLen, Remaining(r.reader))))
    IN  IF Len(c.bytes) = 0
        THEN [rd |-> c.rd, bytes |-> acc]
        ELSE ReadAll(c.rd, acc \o c.bytes)

\* obj.keys(): the keys of an object, in its order
Keys(obj) == [j \in 1..Len(obj.fields) |-> obj.fields[j][1]]

\* Format::write: "ok", an error value ("data") or a panic ("panic").
\* Json::write serializes any vector. Csv::write indexes values[0], returns
\* an error if it is no object, reaches unreachable!() on a later value
\* that is no object, and indexes every object with the keys of the first.
WriteOutcome(id, values) ==
    IF id = "json" THEN "ok"
    ELSE IF values = <<>> THEN "panic"
    ELSE IF values[1].kind # "object" THEN "data"
    ELSE IF \E i \in 1..Len(values) : values[i].kind # "object" THEN "panic"
    ELSE IF \E i \in 1..Len(values) :
               ~(Range(Keys(values[1])) \subseteq Range(Keys(values[i])))
         THEN "panic"
    ELSE "ok"

\* str_to_u8 on the text of an option, a sequence of code points: the first
\* character must encode to one byte in UTF-8
StrToU8(text) ==
    IF text = <<>> THEN [ok |-> FALSE, val |-> 0]
    ELSE IF text[1] < 128 THEN [ok |-> TRUE, val |-> text[1]]
    ELSE [ok |-> FALSE, val |-> 0]

\* ------------------------------------------------------------------------
\* State
\* ------------------------------------------------------------------------

VARIABLES
    rd,        \* SpecReader: the CachedReader
    out,       \* SpecReader: the bytes its reads returned since the last rewind
    nrew,      \* SpecReader: the number of rewind calls so far
    firstn,    \* SpecReader: the bytes read before the first rewind (their count)
    calls,     \* SpecReader: the number of read calls so far
    lastcall,  \* SpecReader: what the last call was and what it did
    args,      \* SpecRun: the command line (clap::ArgMatches) and its environment
    pc,        \* SpecRun: the statement of run() that is next
    csv,       \* SpecRun: the Csv format as set_arguments configured it
    pool,      \* SpecRun: the threads of the global rayon pool, 0 before it is built
    readers,   \* SpecRun: the vector of (extension, CachedReader)
    cur,       \* SpecRun: the index of the reader the loop is at
    format,    \* SpecRun: the format resolved for that reader
    sniff,     \* SpecRun: what the last guess_format did
    values,    \* SpecRun: the records decoded from that reader
    output_values, \* SpecRun: the records accumulated for the output
    result,    \* SpecRun: "running", or how run() returned
    site,      \* SpecRun: the statement that returned the error
    reads,     \* SpecRun: the read calls that have reached an input source
    launched,  \* SpecRun: the external processes launched so far
    written,   \* SpecRun: what Format::write was called with
    parsed,    \* SpecRun: the format and the records of each input decoded so far
    fault,     \* SpecRun: the failure of an input source, if one has happened
    pr,        \* SpecProc: the call: the records, the action, the pool
    rec,       \* SpecProc: where each record is on its way through the closure
    deq,       \* SpecProc: the deque of jobs of each pool thread
    leaf,      \* SpecProc: the records each thread is folding over
    root,      \* SpecProc: where the first join of the iterator is
    full,      \* SpecProc: the flag of while_some: an error has been seen
    saved,     \* SpecProc: the error slot of collect
    failures,  \* SpecProc: the records that failed, in the order they failed
    stdout,    \* SpecProc: the bytes written to stdout, each by its record
    ret,       \* SpecProc: what process() returned, once it has
    lock,      \* SpecProc: the thread that holds the lock of stdout, if any
    trail,     \* SpecProc: what the closure has done for each record, in order
    cpc,       \* SpecCsv: the call that is next: write, parse, or none
    cfg,       \* SpecCsv: the Csv format as configured
    wvalues,   \* SpecCsv: the records given to Csv::write
    wstatus,   \* SpecCsv: how Csv::write ended
    wbytes,    \* SpecCsv: the bytes Csv::write put on stdout
    reread,    \* SpecCsv: what Csv::parse returned on those bytes
    grd,       \* SpecGuess: the CachedReader guess_format is called on
    gext,      \* SpecGuess: the extension hint
    gcsv,      \* SpecGuess: the Csv format as configured
    guesses,   \* SpecGuess: what each call of guess_format returned and did
    acmd,      \* SpecAct: the command: whether it can be launched, and what it does
    apc,       \* SpecAct: the statement of Action::run or of the closure that is next
    aout,      \* SpecAct: the bytes forwarded to stdout
    aerr,      \* SpecAct: the bytes forwarded to stderr
    aret,      \* SpecAct: what Action::run returned, once it has
    afault,    \* SpecAct: the step of Action::run that failed, if one did
    aoutcome   \* SpecAct: what the closure of process() returned for the record

readerVars == <<rd, out, nrew, firstn, calls, lastcall>>

runVars == <<args, pc, csv, pool, readers, cur, format, sniff, values,
             output_values, result, site, reads, launched, written, parsed,
             fault>>

procVars == <<pr, rec, deq, leaf, root, full, saved, failures, stdout, ret,
              lock, trail>>

csvVars == <<cpc, cfg, wvalues, wstatus, wbytes, reread>>

guessVars == <<grd, gext, gcsv, guesses>>

actVars == <<acmd, apc, aout, aerr, aret, afault, aoutcome>>

vars == <<readerVars, runVars, procVars, csvVars, guessVars, actVars>>

\* The variables of SpecAct while another specification runs
ActIdle ==
    /\ acmd = <<>> /\ apc = "idle" /\ aout = <<>> /\ aerr = <<>>
    /\ aret = <<>> /\ afault = "idle" /\ aoutcome = "idle"

\* The variables of SpecGuess while another specification runs
GuessIdle ==
    grd = <<>> /\ gext = "idle" /\ gcsv = <<>> /\ guesses = <<>>

\* The variables of SpecCsv while another specification runs
CsvIdle ==
    /\ cpc = "idle" /\ cfg = <<>> /\ wvalues = <<>> /\ wstatus = "idle"
    /\ wbytes = <<>> /\ reread = <<>>

\* The variables of SpecProc while another specification runs
ProcIdle ==
    /\ pr = <<>> /\ rec = <<>> /\ deq = <<>> /\ leaf = <<>> /\ root = "idle"
    /\ full = FALSE /\ saved = None /\ failures = <<>> /\ stdout = <<>>
    /\ ret = None /\ lock = None /\ trail = <<>>

\* The variables of SpecRun while SpecReader runs
RunIdle ==
    /\ args = <<>> /\ pc = "idle" /\ csv = <<>> /\ pool = 0 /\ readers = <<>>
    /\ cur = 0 /\ format = NoFormat /\ sniff = <<>> /\ values = <<>>
    /\ output_values = <<>> /\ result = "idle" /\ site = "" /\ reads = 0
    /\ launched = 0 /\ written = <<>> /\ parsed = <<>> /\ fault = "idle"

\* The variables of SpecReader while SpecRun runs
ReaderIdle ==
    /\ rd = <<>> /\ out = <<>> /\ nrew = 0 /\ firstn = 0 /\ calls = 0
    /\ lastcall = <<>>

\* ------------------------------------------------------------------------
\* SpecReader
\* ------------------------------------------------------------------------

\* Buffer sizes the callers pass to read: the empty buffer, one byte and
\* buffers around CACHE_LEN (guess_format passes CACHE_LEN, the parsers pass
\* their own sizes)
BufLens == {0, 1, CACHE_LEN - 1, CACHE_LEN, CACHE_LEN + 1}

SrcLens == {0, 2, CACHE_LEN, CACHE_LEN + SrcExtra}

NoCall == [op |-> "none"]

InitReader ==
    /\ \E n \in SrcLens : rd = CachedReaderNew(NewSource(SrcData(n)))
    /\ out = <<>>
    /\ nrew = 0
    /\ firstn = 0
    /\ calls = 0
    /\ lastcall = NoCall
    /\ RunIdle
    /\ ProcIdle
    /\ CsvIdle
    /\ GuessIdle
    /\ ActIdle

\* One call of CachedReader::read
DoRead ==
    /\ calls < MaxCalls
    /\ \E n \in BufLens :
         \E res \in SrcOutcomes(rd.reader, n) :
            LET c == CachedRead(rd, n, res)
            IN  /\ rd' = c.rd
                /\ out' = out \o c.bytes
                /\ calls' = calls + 1
                /\ lastcall' = [op |-> "read", n |-> n, ok |-> c.ok,
                                called |-> c.called, len |-> Len(c.bytes),
                                before |-> [buffer |-> Len(rd.buffer), index |-> rd.index]]
    /\ UNCHANGED <<nrew, firstn, runVars, procVars, csvVars, guessVars, actVars>>

\* One call of CachedReader::rewind
DoRewind ==
    /\ nrew < MaxRewinds
    /\ rd' = Rewind(rd)
    /\ firstn' = IF nrew = 0 THEN Len(out) ELSE firstn
    /\ out' = <<>>
    /\ nrew' = nrew + 1
    /\ lastcall' = [op |-> "rewind"]
    /\ UNCHANGED <<calls, runVars, procVars, csvVars, guessVars, actVars>>

NextReader == DoRead \/ DoRewind

SpecReader == InitReader /\ [][NextReader]_vars

\* The bytes the underlying source has returned so far
Consumed(r) == SubSeq(r.reader.data, 1, r.reader.pos)

\* s is the start of t
IsPrefix(s, t) == Len(s) <= Len(t) /\ s = SubSeq(t, 1, Len(s))

\* C1: as long as rewind() has not been called, the concatenation of the
\* bytes the reads of the CachedReader returned is the concatenation of the
\* bytes the underlying source returned: nothing dropped, duplicated or
\* reordered.
C1_PassThrough == nrew = 0 => out = Consumed(rd)

\* C1 witness: several reads, with no rewind, have carried more than
\* CACHE_LEN bytes through the reader
C1_Witness == nrew = 0 /\ calls >= 2 /\ Len(out) > CACHE_LEN /\ rd.index > Len(rd.buffer)

\* C2: after n <= CACHE_LEN bytes were read and rewind() was called once, the
\* reads that follow return the input from byte 0: the n bytes again, then
\* the bytes of the source from offset n on, and the source is not consumed
\* again while the n bytes are replayed.
C2_ReplayAfterRewind ==
    (nrew = 1 /\ firstn <= CACHE_LEN) =>
        /\ IsPrefix(out, rd.reader.data)
        /\ rd.reader.pos = Max(firstn, Len(out))

\* C2 witness: n > 0 bytes were read in more than one call, rewind() was
\* called, and the reads after it have gone past the n bytes
C2_Witness ==
    /\ nrew = 1 /\ firstn > 0 /\ firstn <= CACHE_LEN
    /\ Len(out) > firstn
    /\ calls >= 3

\* C3: the retained buffer never holds more than CACHE_LEN bytes.
C3_BufferBounded == Len(rd.buffer) <= CACHE_LEN

\* ------------------------------------------------------------------------
\* SpecRun: run() of main.rs
\* ------------------------------------------------------------------------

\* max_procs_str.parse::<usize>() on a text of code points
ParseUsize(text) ==
    IF text # <<>> /\ \A i \in 1..Len(text) : IsDigit(text[i])
    THEN [ok |-> TRUE, val |-> text[1] - Ascii.zero]
    ELSE [ok |-> FALSE, val |-> 0]

\* An input file named by -i: the extension of its path, whether it can be
\* opened, and its content
File(ext, exists, content) == [ext |-> ext, exists |-> exists, content |-> content]

FirstFiles ==
    {File(e, TRUE, c) : e \in {NoExt, "csv", "json", "tsv"}, c \in ContentIds}
        \cup {File("json", FALSE, "empty")}

MoreFiles == {File("json", TRUE, "json"), File("csv", FALSE, "empty")}

RECURSIVE FileLists(_)
FileLists(n) ==
    IF n = 1 THEN {<<f>> : f \in FirstFiles}
    ELSE FileLists(n - 1)
           \cup {Append(l, f) : l \in {m \in FileLists(n - 1) : Len(m) = n - 1},
                                f \in MoreFiles}

\* The standard input: a terminal, or a pipe with a content
Stdins == {[tty |-> TRUE, content |-> "empty"]}
             \cup {[tty |-> FALSE, content |-> c] : c \in ContentIds}

\* The command words and the options of the action, and whether the
\* templates compile and the --stdin-file can be read
Commands ==
    { [given |-> FALSE, template_ok |-> TRUE, stdin_file |-> "absent", prompt |-> FALSE],
      [given |-> TRUE, template_ok |-> TRUE, stdin_file |-> "absent", prompt |-> FALSE],
      [given |-> TRUE, template_ok |-> TRUE, stdin_file |-> "readable", prompt |-> TRUE],
      [given |-> TRUE, template_ok |-> FALSE, stdin_file |-> "absent", prompt |-> FALSE],
      [given |-> TRUE, template_ok |-> TRUE, stdin_file |-> "unreadable", prompt |-> FALSE] }

\* The ways -i and the standard input can be given: files, or none and the
\* standard input
InputChoices ==
    {[inputs |-> l, stdin |-> [tty |-> TRUE, content |-> "empty"]] :
        l \in FileLists(MaxInputs)}
      \cup {[inputs |-> <<>>, stdin |-> t] : t \in Stdins}

ArgMatches(d, m, i, f, c, o) ==
    [csv_delimiter |-> d, max_procs |-> m, inputs |-> i.inputs, stdin |-> i.stdin,
     format |-> f, command |-> c, output_format |-> o]

\* formats.get(format_id) finds a format
Registered(id) == id \in Registry

InitRun ==
    /\ \E d \in {<<Ascii.comma>>, <<Ascii.tab>>, <<>>, <<Ascii.eacute>>},
          m \in {None, Some(<<Ascii.two>>), Some(<<Ascii.a>>)},
          i \in InputChoices,
          f \in {None, Some("json"), Some("csv"), Some("xxx")},
          c \in Commands,
          o \in {None, Some("csv"), Some("xxx")} :
            args = ArgMatches(d, m, i, f, c, o)
    /\ pc = "set_arguments"
    /\ csv = [delimiter |-> Ascii.comma]
    /\ pool = 0
    /\ readers = <<>>
    /\ cur = 0
    /\ format = NoFormat
    /\ sniff = <<>>
    /\ values = <<>>
    /\ output_values = <<>>
    /\ result = "running"
    /\ site = ""
    /\ reads = 0
    /\ launched = 0
    /\ written = None
    /\ parsed = <<>>
    /\ fault = "none"
    /\ ReaderIdle
    /\ ProcIdle
    /\ CsvIdle
    /\ GuessIdle
    /\ ActIdle

\* return Err(EachError::...) from run()
Fail(class, where) ==
    /\ result' = class
    /\ site' = where
    /\ pc' = "done"

\* format.set_arguments for every format; Json's does nothing
SetArguments ==
    /\ pc = "set_arguments"
    /\ LET d == StrToU8(args.csv_delimiter)
       IN  IF d.ok
           THEN /\ csv' = [delimiter |-> d.val]
                /\ pc' = "max_procs"
                /\ UNCHANGED <<result, site>>
           ELSE /\ Fail("usage", "Invalid argument for format")
                /\ UNCHANGED csv
    /\ UNCHANGED <<args, pool, readers, cur, format, sniff, values, output_values,
                   reads, launched, written, parsed, fault, readerVars, procVars,
                   csvVars, guessVars, actVars>>

\* The default of rayon's ThreadPoolBuilder: the number of CPUs
NumCpus == 2

\* ThreadPoolBuilder::new().num_threads(n): 0 asks for the default
NumThreads(n) == IF n = 0 THEN NumCpus ELSE n

\* max-procs and the global pool
BuildPool ==
    /\ pc = "max_procs"
    /\ LET m == IF args.max_procs = None THEN [ok |-> TRUE, val |-> 1]
                ELSE ParseUsize(args.max_procs[1])
       IN  IF m.ok
           THEN /\ pool' = NumThreads(m.val)
                /\ pc' = "inputs"
                /\ UNCHANGED <<result, site>>
           ELSE /\ Fail("usage", "Invalid max-procs")
                /\ UNCHANGED pool
    /\ UNCHANGED <<args, csv, readers, cur, format, sniff, values, output_values,
                   reads, launched, written, parsed, fault, readerVars, procVars,
                   csvVars, guessVars, actVars>>

\* The readers of the inputs: the files of -i in order, or the standard input
OpenInputs ==
    /\ pc = "inputs"
    /\ IF args.inputs # <<>>
       THEN IF \E i \in 1..Len(args.inputs) : ~args.inputs[i].exists
            THEN /\ Fail("data", "Couldn't open file")
                 /\ fault' = "open"
                 /\ UNCHANGED readers
            ELSE /\ readers' = [i \in 1..Len(args.inputs) |->
                                  [ext |-> args.inputs[i].ext,
                                   rd  |-> CachedReaderNew(
                                             NewSource(Contents[args.inputs[i].content]))]]
                 /\ pc' = "action"
                 /\ UNCHANGED <<result, site, fault>>
       ELSE IF args.stdin.tty
            THEN /\ Fail("usage", "No input provided")
                 /\ UNCHANGED <<readers, fault>>
            ELSE /\ readers' = <<[ext |-> NoExt,
                                  rd  |-> CachedReaderNew(
                                            NewSource(Contents[args.stdin.content]))]>>
                 /\ pc' = "action"
                 /\ UNCHANGED <<result, site, fault>>
    /\ UNCHANGED <<args, csv, pool, cur, format, sniff, values, output_values,
                   reads, launched, written, parsed, readerVars, procVars,
                   csvVars, guessVars, actVars>>

\* The action: the stdin template (read from --stdin-file) and Action::new
BuildAction ==
    /\ pc = "action"
    /\ IF args.command.given /\ args.command.stdin_file = "unreadable"
       THEN Fail("io", "stdin-file") /\ UNCHANGED cur
       ELSE IF args.command.given /\ ~args.command.template_ok
       THEN Fail("usage", "Invalid template") /\ UNCHANGED cur
       ELSE /\ pc' = "format"
            /\ cur' = 1
            /\ UNCHANGED <<result, site>>
    /\ UNCHANGED <<args, csv, pool, readers, format, sniff, values, output_values,
                   reads, launched, written, parsed, fault, readerVars, procVars,
                   csvVars, guessVars, actVars>>

\* The format of the current reader: the one --format names, or guess_format
ResolveFormat ==
    /\ pc = "format"
    /\ IF args.format # None
       THEN /\ IF Registered(args.format[1])
               THEN /\ format' = args.format[1]
                    /\ pc' = "parse"
                    /\ UNCHANGED <<result, site>>
               ELSE /\ Fail("usage", "Unknown format")
                    /\ UNCHANGED format
            /\ UNCHANGED <<readers, sniff, reads, fault>>
       ELSE \E res \in SrcOutcomes(readers[cur].rd.reader, CACHE_LEN) :
              LET g == GuessFormat(readers[cur].ext, readers[cur].rd, csv, res)
              IN  /\ readers' = [readers EXCEPT ![cur].rd = g.rd]
                  /\ sniff' = [ext |-> readers[cur].ext, sniffed |-> g.sniffed,
                               res |-> res, header |-> g.header,
                               answers |-> g.answers, format |-> g.format,
                               before |-> readers[cur].rd]
                  /\ reads' = IF g.sniffed THEN reads + 1 ELSE reads
                  /\ format' = g.format
                  /\ fault' = IF g.sniffed /\ ~res.ok THEN "sniff_read" ELSE fault
                  /\ IF g.format = NoFormat
                     THEN Fail("data", "Unable to guess format")
                     ELSE pc' = "parse" /\ UNCHANGED <<result, site>>
    /\ UNCHANGED <<args, csv, pool, cur, values, output_values, launched, written,
                   parsed, readerVars, procVars,
                   csvVars, guessVars, actVars>>

\* format.parse(reader): the decoder reads the reader to the end, unless a
\* read fails, and decodes what it read
Parse ==
    /\ pc = "parse"
    /\ \E failing \in BOOLEAN :
         LET all == ReadAll(readers[cur].rd, <<>>)
             dec == Decode(format, all.bytes, csv)
         IN  /\ reads' = reads + 1
             /\ IF failing
                THEN /\ Fail("data", "failed to parse input")
                     /\ fault' = "parse_read"
                     /\ UNCHANGED <<readers, values, parsed>>
                ELSE /\ readers' = [readers EXCEPT ![cur].rd = all.rd]
                     /\ UNCHANGED fault
                     /\ IF dec.ok
                        THEN /\ values' = dec.values
                             /\ parsed' = Append(parsed, [format |-> format,
                                                          values |-> dec.values])
                             /\ pc' = "apply"
                             /\ UNCHANGED <<result, site>>
                        ELSE /\ Fail("data", "failed to parse input")
                             /\ UNCHANGED <<values, parsed>>
    /\ UNCHANGED <<args, csv, pool, cur, format, sniff, output_values, launched,
                   written, readerVars, procVars,
                   csvVars, guessVars, actVars>>

\* How process(&values, &action) may return, and how many processes it has
\* launched by then: see SpecProc
ProcessOutcomes(vals, command) ==
    {o \in [result : {"ok", "data", "io"}, launched : 0..Len(vals)] :
        /\ o.result = "io" => command.prompt
        /\ o.result # "ok" => Len(vals) > 0
        /\ (o.result = "ok" /\ ~command.prompt) => o.launched = Len(vals)}

\* The end of the loop body: the next reader, or the code after the loop
Advance ==
    IF cur < Len(readers)
    THEN cur' = cur + 1 /\ pc' = "format"
    ELSE cur' = cur /\ pc' = "output"

\* match action: process(&values, &action)?
ApplyAction ==
    /\ pc = "apply"
    /\ args.command.given
    /\ \E o \in ProcessOutcomes(values, args.command) :
         /\ launched' = launched + o.launched
         /\ IF o.result = "ok"
            THEN Advance /\ UNCHANGED <<result, site>>
            ELSE Fail(o.result, "process") /\ UNCHANGED cur
    /\ UNCHANGED <<args, csv, pool, readers, format, sniff, values, output_values,
                   reads, written, parsed, fault, readerVars, procVars,
                   csvVars, guessVars, actVars>>

\* extend_from_slice putting the records in front of the vector
ExtendFront(acc, vals) == vals \o acc

\* output_values.extend_from_slice(&values)
Extend(acc, vals) == acc \o vals

\* match action: output_values.extend_from_slice(&values)
Collect ==
    /\ pc = "apply"
    /\ ~args.command.given
    /\ output_values' = Extend(output_values, values)
    /\ Advance
    /\ UNCHANGED <<args, csv, pool, readers, format, sniff, values, result, site,
                   reads, launched, written, parsed, fault, readerVars, procVars,
                   csvVars, guessVars, actVars>>

\* After the loop: with no action, the output format and its write
Output ==
    /\ pc = "output"
    /\ IF args.command.given
       THEN /\ result' = "ok" /\ pc' = "done"
            /\ UNCHANGED <<site, written>>
       ELSE LET id == IF args.output_format = None THEN "json"
                      ELSE args.output_format[1]
            IN  IF ~Registered(id)
                THEN Fail("usage", "Unknown output format") /\ UNCHANGED written
                ELSE /\ written' = Some([format |-> id, values |-> output_values])
                     /\ pc' = "done"
                     /\ LET w == WriteOutcome(id, output_values)
                        IN  IF w = "ok"
                            THEN result' = "ok" /\ UNCHANGED site
                            ELSE /\ result' = w
                                 /\ site' = "serialize error"
    /\ UNCHANGED <<args, csv, pool, readers, cur, format, sniff, values,
                   output_values, reads, launched, parsed, fault, readerVars, procVars,
                   csvVars, guessVars, actVars>>

NextRun ==
    \/ SetArguments
    \/ BuildPool
    \/ OpenInputs
    \/ BuildAction
    \/ ResolveFormat
    \/ Parse
    \/ ApplyAction
    \/ Collect
    \/ Output

SpecRun == InitRun /\ [][NextRun]_vars

\* run() has returned
Returned == pc = "done"

\* --format names a format that is not registered
UnknownFormatGiven == args.format # None /\ ~Registered(args.format[1])

\* C4: with an explicit input format id that is not registered, the run
\* fails with a Usage error, before any read of an input source and before
\* any process is launched.
C4_UnknownFormatIsUsageError ==
    (UnknownFormatGiven /\ Returned) =>
        (result = "usage" /\ reads = 0 /\ launched = 0)

\* guess_format has just returned for the current reader
Guessed == sniff # <<>> /\ (pc = "parse" \/ site = "Unable to guess format")

\* C5: with no explicit format id, an extension of a registered format
\* decides the format (json for "json", csv for "csv") whatever the content,
\* without a read of the input; an absent extension or one of no registered
\* format leads to content sniffing: the input is read and the format is the
\* one the sniffing finds, not none because the extension matched nothing.
C5_ExtensionThenSniffing ==
    Guessed =>
        /\ sniff.ext = "json" => (sniff.format = "json" /\ ~sniff.sniffed)
        /\ sniff.ext = "csv" => (sniff.format = "csv" /\ ~sniff.sniffed)
        /\ sniff.ext \notin {"json", "csv"} =>
              /\ sniff.sniffed
              /\ sniff.answers # None =>
                    /\ sniff.format = NoFormat =>
                          \A i \in 1..Len(FormatIds) :
                              ~sniff.answers[1][FormatIds[i]].val
                    /\ sniff.format # NoFormat =>
                          sniff.answers[1][sniff.format].val
        /\ ~sniff.sniffed => readers[cur].rd = sniff.before

\* C5 witness: a .tsv file of tab-separated rows, read with the tab as the
\* delimiter, is resolved to csv by its content
C5_Witness ==
    /\ Guessed /\ sniff.ext = "tsv" /\ sniff.sniffed /\ sniff.format = "csv"
    /\ args.inputs[cur].content = "tsv"

\* A format answered Ok(true) to is_valid_header
AnsweredTrue(id) ==
    sniff.answers # None /\ sniff.answers[1][id].ok /\ sniff.answers[1][id].val

MaxRecords == 3
MaxProcs == 2
\* The bytes a process writes to its standard output
OutBytes == 2

\* What a record does to the closure: "ok" renders and runs, "render_fail"
\* makes action.prepare fail, "run_fail" makes action.run fail
RecordKinds == {"ok", "render_fail", "run_fail"}

\* --max-procs: absent, or a parsed usize
MaxProcsArgs == {None} \cup {Some(k) : k \in 0..MaxProcs}

\* let max_procs = if let Some(..) = value_of("max-procs") { .. } else { 1 }
DefaultMaxProcsZero(arg) == IF arg = None THEN 0 ELSE arg[1]

MaxProcsOf(arg) == IF arg = None THEN 1 ELSE arg[1]

\* A job of the pool: the records lo .. hi-1, the splits left to the
\* splitter, and whether the join that made it was injected from outside
Job(lo, hi, splits, injected) ==
    [lo |-> lo, hi |-> hi, splits |-> splits, injected |-> injected]

NoLeaf == [lo |-> 0, hi |-> 0]

\* The thread that called process(); the pool threads are 1..threads
MainThread == 0

\* par_iter() over the slice, on the thread that took the job: the range is
\* halved while the splitter allows, each right half is pushed on the
\* thread's own deque, and the leftmost part is folded
RECURSIVE Descend(_, _, _, _, _)
Descend(lo, hi, splits, migrated, threads) ==
    IF (hi - lo) \div 2 >= 1 /\ (migrated \/ splits > 0)
    THEN LET s2 == IF migrated THEN Max(threads, splits \div 2)
                   ELSE splits \div 2
             mid == lo + (hi - lo) \div 2
             d == Descend(lo, mid, s2, FALSE, threads)
         IN  [pushed |-> <<Job(mid, hi, s2, FALSE)>> \o d.pushed,
              leaf |-> d.leaf]
    ELSE [pushed |-> <<>>, leaf |-> [lo |-> lo, hi |-> hi]]

Threads == 1..pr.threads

Records == 1..Len(pr.kinds)

\* The record a thread is at in its closure
At(e) == leaf[e].lo

Busy(e) == leaf[e] # NoLeaf

\* The closure has returned for the record
Done(i) == rec[i] \in {"executed", "declined", "failed"}

\* The records in the closure: prompting, or running their process
InFlight == {i \in Records : rec[i] \in {"prompting", "running"}}

InitProc ==
    /\ \E n \in 0..MaxRecords, p \in BOOLEAN, m \in MaxProcsArgs :
         \E k \in [1..n -> RecordKinds] :
            /\ pr = [kinds |-> k, prompt |-> p, max_procs |-> m,
                     threads |-> NumThreads(MaxProcsOf(m))]
            /\ rec = [i \in 1..n |-> "pending"]
            /\ deq = [w \in 1..NumThreads(MaxProcsOf(m)) |-> <<>>]
            /\ leaf = [e \in 0..NumThreads(MaxProcsOf(m)) |->
                          IF e = MainThread /\ n = 1
                          THEN [lo |-> 1, hi |-> 2] ELSE NoLeaf]
            /\ root = IF n >= 2 THEN "injected" ELSE "main"
    /\ full = FALSE
    /\ saved = None
    /\ failures = <<>>
    /\ stdout = <<>>
    /\ ret = None
    /\ lock = None
    /\ trail = [i \in DOMAIN rec |-> <<>>]
    /\ ReaderIdle
    /\ RunIdle
    /\ CsvIdle
    /\ GuessIdle
    /\ ActIdle

\* A pool thread takes the first join, injected by the calling thread: it
\* pushes the right half and goes down the left one
TakeRoot(w) ==
    /\ ret = None
    /\ root = "injected"
    /\ LET n == Len(pr.kinds)
           s == pr.threads \div 2
           mid == 1 + n \div 2
           d == Descend(1, mid, s, TRUE, pr.threads)
       IN  /\ deq' = [deq EXCEPT ![w] = <<Job(mid, n + 1, s, TRUE)>> \o d.pushed]
           /\ leaf' = [leaf EXCEPT ![w] = d.leaf]
    /\ root' = "taken"
    /\ UNCHANGED <<pr, rec, full, saved, failures, stdout, ret, lock, trail,
                   readerVars, runVars, csvVars, guessVars, actVars>>

\* The job at the head of a deque, where thieves take
StolenFrom(q) == [job |-> Head(q), rest |-> Tail(q)]

\* The job at the back of a deque, where its owner pushed last
PoppedFrom(q) == [job |-> q[Len(q)], rest |-> SubSeq(q, 1, Len(q) - 1)]

\* RunJob with every job taken for one of a full consumer
RunJobDropped(w, job, migrated, rest) == [deque |-> rest, leaf |-> NoLeaf]

\* A thread runs a job: nothing if the consumer is full, else the split
RunJob(w, job, migrated, rest) ==
    IF full
    THEN [deque |-> rest, leaf |-> NoLeaf]
    ELSE LET d == Descend(job.lo, job.hi, job.splits, migrated, pr.threads)
         IN  [deque |-> rest \o d.pushed, leaf |-> d.leaf]

\* A thread that has finished its part takes the job it pushed last
Pop(w) ==
    /\ ret = None
    /\ ~Busy(w)
    /\ deq[w] # <<>>
    /\ LET t == PoppedFrom(deq[w])
           r == RunJob(w, t.job, t.job.injected, t.rest)
       IN  /\ deq' = [deq EXCEPT ![w] = r.deque]
           /\ leaf' = [leaf EXCEPT ![w] = r.leaf]
    /\ UNCHANGED <<pr, rec, root, full, saved, failures, stdout, ret, lock, trail,
                   readerVars, runVars, csvVars, guessVars, actVars>>

\* A thread with nothing of its own steals the oldest job of another thread
Steal(w, v) ==
    /\ ret = None
    /\ w # v
    /\ root = "taken"
    /\ ~Busy(w)
    /\ deq[w] = <<>>
    /\ deq[v] # <<>>
    /\ LET t == StolenFrom(deq[v])
           r == RunJob(w, t.job, TRUE, <<>>)
       IN  /\ deq' = [deq EXCEPT ![v] = t.rest, ![w] = r.deque]
           /\ leaf' = [leaf EXCEPT ![w] = r.leaf]
    /\ UNCHANGED <<pr, rec, root, full, saved, failures, stdout, ret, lock, trail,
                   readerVars, runVars, csvVars, guessVars, actVars>>

\* collect::<Result<_, _>>(): the slot keeps the error stored first
SaveLatest(slot, err) == Some(err)

Save(slot, err) == IF slot = None THEN Some(err) ELSE slot

\* The closure returns Err for the record a thread is at: the error goes to
\* the slot, the flag is raised and the thread's fold stops
Failed(e, class) ==
    /\ rec' = [rec EXCEPT ![At(e)] = "failed"]
    /\ saved' = Save(saved, [index |-> At(e), class |-> class])
    /\ failures' = Append(failures, At(e))
    /\ full' = TRUE
    /\ leaf' = [leaf EXCEPT ![e] = NoLeaf]

\* The closure returns Ok(()) for the record a thread is at: the fold goes
\* on to the next record unless the flag is up
Passed(e, outcome) ==
    /\ rec' = [rec EXCEPT ![At(e)] = outcome]
    /\ leaf' = [leaf EXCEPT ![e] =
                   IF full \/ At(e) + 1 = leaf[e].hi THEN NoLeaf
                   ELSE [lo |-> At(e) + 1, hi |-> leaf[e].hi]]
    /\ UNCHANGED <<saved, failures, full>>

\* The events of the closure for record i, written to its trail
Log(i, events) == trail' = [trail EXCEPT ![i] = @ \o events]

\* action.run(cmd): cmd.capture() fails, or the process is started
Launch(e) ==
    IF pr.kinds[At(e)] = "run_fail"
    THEN Failed(e, "data")
    ELSE /\ rec' = [rec EXCEPT ![At(e)] = "running"]
         /\ UNCHANGED <<leaf, saved, failures, full>>

LaunchEvents(i) ==
    IF pr.kinds[i] = "run_fail" THEN <<"launch_failed">> ELSE <<"launched">>

\* The closure starts on a record: action.prepare, then the prompt or the
\* process
Start(e) ==
    /\ ret = None
    /\ Busy(e)
    /\ rec[At(e)] = "pending"
    /\ IF pr.kinds[At(e)] = "render_fail"
       THEN Failed(e, "data") /\ Log(At(e), <<"render_failed">>)
       ELSE IF pr.prompt
            THEN /\ rec' = [rec EXCEPT ![At(e)] = "prompting"]
                 /\ Log(At(e), <<"rendered", "prompted">>)
                 /\ UNCHANGED <<leaf, saved, failures, full>>
            ELSE Launch(e) /\ Log(At(e), <<"rendered">> \o LaunchEvents(At(e)))
    /\ UNCHANGED <<pr, deq, root, stdout, ret, lock,
                   readerVars, runVars, csvVars, guessVars, actVars>>

\* `if run` with the answer taken for yes whatever it is
RunRegardless(a) == TRUE

\* let run = if action.prompt { ...interact()? } else { true }; if run { .. }
ShouldRun(a) == a = "yes"

\* Confirmation::interact() returns: yes, no, or an io::Error
Answer(e) ==
    /\ ret = None
    /\ Busy(e)
    /\ rec[At(e)] = "prompting"
    /\ \E a \in {"yes", "no", "io"} :
         IF a = "io"
         THEN Failed(e, "io") /\ Log(At(e), <<"prompt_failed">>)
         ELSE IF ShouldRun(a)
              THEN Launch(e) /\ Log(At(e), <<a>> \o LaunchEvents(At(e)))
              ELSE Passed(e, "declined") /\ Log(At(e), <<a>>)
    /\ UNCHANGED <<pr, deq, root, stdout, ret, lock,
                   readerVars, runVars, csvVars, guessVars, actVars>>

\* An exit that comes after the failure of another record is marked so
ExitMark == IF full THEN <<"after_failure">> ELSE <<>>

\* The process of a record ends and cmd.capture() returns its output
Exit(e) ==
    /\ ret = None
    /\ Busy(e)
    /\ rec[At(e)] = "running"
    /\ rec' = [rec EXCEPT ![At(e)] = "writing"]
    /\ Log(At(e), <<"exited">> \o ExitMark)
    /\ UNCHANGED <<pr, deq, leaf, root, full, saved, failures, stdout, ret, lock,
                   readerVars, runVars, csvVars, guessVars, actVars>>

\* The bytes of record i that are on stdout
WrittenOf(i) == Cardinality({k \in 1..Len(stdout) : stdout[k] = i})

\* Stdout written with no lock taken
StdoutUnlocked(e) == TRUE

\* std::io::stdout().write_all(..) takes the lock of stdout for the call:
\* a thread writes when no other thread holds it
StdoutFree(e) == lock = None \/ lock = Some(e)

\* write_all(&result.stdout): one more byte of the captured output reaches
\* stdout; after the last one the lock is dropped and the closure returns Ok
Write(e) ==
    /\ ret = None
    /\ Busy(e)
    /\ rec[At(e)] = "writing"
    /\ StdoutFree(e)
    /\ stdout' = Append(stdout, At(e))
    /\ IF WrittenOf(At(e)) + 1 = OutBytes
       THEN /\ lock' = None
            /\ Passed(e, "executed")
            /\ Log(At(e), <<"written">>)
       ELSE /\ lock' = Some(e)
            /\ UNCHANGED <<rec, leaf, saved, failures, full, trail>>
    /\ UNCHANGED <<pr, deq, root, ret,
                   readerVars, runVars, csvVars, guessVars, actVars>>

\* collect() returning as soon as an error is stored
CollectedOrFailed ==
    \/ full
    \/ /\ root # "injected"
       /\ \A e \in DOMAIN leaf : ~Busy(e)
       /\ \A w \in Threads : deq[w] = <<>>

\* collect() returns when the outermost join has: every job has been run
\* and no thread is in the closure
Collected ==
    /\ root # "injected"
    /\ \A e \in DOMAIN leaf : ~Busy(e)
    /\ \A w \in Threads : deq[w] = <<>>

\* Every job is over: match results { Ok(_) => Ok(()), Err(e) => Err(e) }
Return ==
    /\ ret = None
    /\ Collected
    /\ ret' = IF saved = None THEN Some([class |-> "ok", index |-> 0]) ELSE saved
    /\ UNCHANGED <<pr, rec, deq, leaf, root, full, saved, failures, stdout, lock, trail,
                   readerVars, runVars, csvVars, guessVars, actVars>>

NextProc ==
    \/ \E w \in Threads : TakeRoot(w)
    \/ \E w \in Threads : Pop(w)
    \/ \E w, v \in Threads : Steal(w, v)
    \/ \E e \in DOMAIN leaf : Start(e)
    \/ \E e \in DOMAIN leaf : Answer(e)
    \/ \E e \in DOMAIN leaf : Exit(e)
    \/ \E e \in DOMAIN leaf : Write(e)
    \/ Return

SpecProc == InitProc /\ [][NextProc]_vars

\* process() with threads that are scheduled, prompts that are answered and
\* processes that end: a step that stays possible is taken in the end. A
\* record that cannot render or launch fails once it is started, so the
\* calls in which no record fails are calls on records that can
\* A call on records of which none fails to render or to launch
InitProcFair == InitProc /\ \A i \in DOMAIN pr.kinds : pr.kinds[i] = "ok"

SpecProcFair == InitProcFair /\ [][NextProc]_vars /\ WF_vars(NextProc)

\* process() has returned an error
ReturnedErr == ret # None /\ ret[1].class # "ok"

FailedRecords == {i \in Records : rec[i] = "failed"}

\* C7 as stated: when several records of one process() call fail, whatever
\* the parallelism limit and the interleaving of the workers, the error
\* that process() returns is the error of the failing record with the
\* lowest record index.
C7_LowestIndexWins ==
    ReturnedErr => ret[1].index = SetMin(FailedRecords)

\* C7 as amended: process() returns an error exactly when a record failed,
\* and the error is that of the record whose failure was stored first, a
\* Data error for a render or execution failure and an Io error for a
\* failed prompt; with one pool thread it is the failing record of lowest
\* index.
C7_FirstStoredWins ==
    ret # None =>
        /\ ReturnedErr <=> failures # <<>>
        /\ ReturnedErr =>
              /\ ret[1].index = failures[1]
              /\ rec[ret[1].index] = "failed"
              /\ ret[1].class = "data" => pr.kinds[ret[1].index] # "ok"
              /\ ret[1].class = "io" => pr.prompt
              /\ pr.threads = 1 => ret[1].index = SetMin(FailedRecords)

\* C7 witness: two records failed, the one of higher index first, and its
\* error is the one returned
C7_Witness ==
    /\ ReturnedErr
    /\ Len(failures) >= 2
    /\ failures[1] > failures[2]
    /\ ret[1].index = failures[1]

Prompting == {i \in Records : rec[i] = "prompting"}

\* C8: with prompting enabled, whatever the parallelism limit and the
\* interleaving of the workers, at most one confirmation prompt is open at
\* any time.
C8_OnePromptOpen ==
    Cardinality(Prompting) <= 1

\* C9: for every accepted value of the parallelism limit, 0 included, the
\* number of records in flight at one time (prompting or running their
\* process) never exceeds the limit.
C9_InFlightWithinLimit ==
    pr.max_procs # None => Cardinality(InFlight) <= pr.max_procs[1]

\* The record numbers of a sequence are in increasing order
Increasing(q) == \A j, k \in 1..Len(q) : j < k => q[j] <= q[k]

\* C10: with no --max-procs (the default, 1) the records are processed one
\* after the other in input order: a record is not rendered, prompted or
\* launched before the record ahead of it is done, at most one record is in
\* flight, and the outputs are written in record order; when no record is
\* declined or fails, the output of the call is that of every record, in
\* input order.
C10_SequentialByDefault ==
    pr.max_procs = None =>
        /\ \A i \in Records : (i > 1 /\ rec[i] # "pending") => Done(i - 1)
        /\ Cardinality(InFlight) <= 1
        /\ Increasing(stdout)
        /\ (ret # None /\ \A i \in Records : rec[i] = "executed") =>
              stdout = [k \in 1..(OutBytes * Len(pr.kinds)) |->
                           ((k - 1) \div OutBytes) + 1]

\* C10 witness: two records and a command without prompt, as in the test
\* call_echo: the call has returned and the outputs are the first record's,
\* then the second's
C10_Witness ==
    /\ pr.max_procs = None /\ ~pr.prompt
    /\ Len(pr.kinds) = 2
    /\ ret = Some([class |-> "ok", index |-> 0])
    /\ Len(stdout) = 2 * OutBytes
    /\ stdout[1] = 1 /\ stdout[Len(stdout)] = 2

\* C11: whatever the parallelism limit and the interleaving, the captured
\* output of a record's process reaches stdout as one contiguous block, and
\* only after the process has ended: between two bytes of one record there
\* is no byte of another record, and a record has bytes on stdout only once
\* its process has exited; an executed record has its whole output there.
C11_ContiguousBlocks ==
    /\ \A j, l \in 1..Len(stdout) :
          (j < l /\ stdout[j] = stdout[l]) =>
              \A k \in j..l : stdout[k] = stdout[j]
    /\ \A i \in Records :
          /\ WrittenOf(i) > 0 =>
                (rec[i] \in {"writing", "executed"} /\ "exited" \in Range(trail[i]))
          /\ rec[i] = "executed" => WrittenOf(i) = OutBytes

\* C11 witness: one record is in the middle of its block while another
\* record, its process ended too, has its output still to write
C11_Witness ==
    \E i, j \in Records :
        /\ i # j
        /\ rec[i] = "writing" /\ rec[j] = "writing"
        /\ WrittenOf(i) > 0 /\ WrittenOf(i) < OutBytes
        /\ WrittenOf(j) = 0

\* ---------------------------------------------------------------------------
\* run(): what reaches the output, and how it fails
\* ---------------------------------------------------------------------------

\* The bytes of the i-th input of the command line: the i-th file of -i, or
\* the standard input
InputContent(i) ==
    IF args.inputs = <<>> THEN Contents[args.stdin.content]
    ELSE Contents[args.inputs[i].content]

\* The records of the inputs decoded so far, one input after the other
RECURSIVE Flatten(_)
Flatten(q) == IF q = <<>> THEN <<>> ELSE Head(q).values \o Flatten(Tail(q))

\* C12: with no command template, the records passed to the write of the
\* output format are the records decoded from every input, the inputs in
\* the order of the command line and the records in their order within each
\* input, each input's records being those its whole content decodes to.
C12_OutputIsConcatenation ==
    written # None =>
        /\ ~args.command.given
        /\ Len(parsed) = Len(readers)
        /\ \A i \in 1..Len(parsed) :
              parsed[i].values = Decode(parsed[i].format, InputContent(i), csv).values
        /\ written[1].values = Flatten(parsed)

\* C12 witness: an input of three records, then one of two: write is called
\* with the five
C12_Witness ==
    /\ written # None
    /\ Len(parsed) = 2
    /\ Len(parsed[1].values) = 3 /\ Len(parsed[2].values) = 2
    /\ Len(written[1].values) = 5
    /\ written[1].values[4] = parsed[2].values[1]

\* C13: every Usage error is raised before any processing starts: before
\* any byte of an input is read, any record is decoded and any external
\* process is launched.
C13_UsageBeforeProcessing ==
    (Returned /\ result = "usage") =>
        (reads = 0 /\ parsed = <<>> /\ launched = 0)

\* main: the exit status of each class of error (the exitcode crate)
ExitCode(class) ==
    CASE class = "ok" -> 0
      [] class = "usage" -> 64
      [] class = "data" -> 65
      [] class = "io" -> 74

\* The message of the error names the path of the input
NamesPath(where) == where = "Couldn't open file"

\* C14: a failure of an input source (the file cannot be opened, or a read
\* fails while the format is sniffed or the input decoded) ends the run
\* with an error of the I/O class, its exit status different from those of
\* the Usage and Data classes, and its message naming the path.
C14_InputFailureIsIoError ==
    (Returned /\ fault # "none") =>
        /\ result = "io"
        /\ ExitCode(result) \notin {ExitCode("usage"), ExitCode("data")}
        /\ NamesPath(site)

\* The rows of the i-th input read as CSV, and those among them, after the
\* header, whose field count is not the header's
InputRows(i) == CsvRecords(InputContent(i), csv.delimiter)

Mismatched(i) ==
    {k \in 2..Len(InputRows(i)) : Len(InputRows(i)[k]) # Len(InputRows(i)[1])}

\* format.parse has failed on the current input, with no failure of a read
ParseFailed ==
    Returned /\ site = "failed to parse input" /\ fault = "none"

\* C15: the Csv parse of an input with a row whose field count differs from
\* the header's fails with a Data error that names the row (the first such
\* row) and returns no records: an input decoded as CSV has no such row, and
\* each of its records has the header's fields, in order, with the values of
\* its row, none cut and none added.
C15_RaggedRowIsDataError ==
    /\ \A i \in 1..Len(parsed) :
          parsed[i].format = "csv" =>
              /\ Mismatched(i) = {}
              /\ Len(parsed[i].values) = Len(InputRows(i)) - 1
              /\ \A k \in 1..Len(parsed[i].values) :
                    parsed[i].values[k] =
                        Object([j \in 1..Len(InputRows(i)[1]) |->
                                  <<InputRows(i)[1][j],
                                    String(InputRows(i)[k + 1][j])>>])
    /\ (ParseFailed /\ format = "csv") =>
          /\ result = "data"
          /\ Len(parsed) = cur - 1
          /\ written = None
          /\ Mismatched(cur) # {} \/ InputRows(cur) = <<>>
          /\ Mismatched(cur) # {} =>
                CsvParse(InputContent(cur), csv).row = SetMin(Mismatched(cur)) - 2

\* C15 witness: a CSV file whose only data row has one field under a header
\* of two: the run has failed on it
C15_Witness ==
    /\ ParseFailed /\ format = "csv"
    /\ args.inputs # <<>> /\ args.inputs[cur].content = "ragged"
    /\ Mismatched(cur) = {2}

\* C16: the write of the Csv format, for every record sequence (the empty
\* one, one with a record that is no object at the first or at a later
\* position, one with an object that lacks a key of the first record),
\* succeeds or returns an error value; it never panics.
C16_WriteNeverPanics ==
    (written # None /\ written[1].format = "csv") => result # "panic"

\* ---------------------------------------------------------------------------
\* SpecCsv: Csv::write on a vector of records, then Csv::parse on its output
\* ---------------------------------------------------------------------------

\* Most records in the vector given to write
MaxRows == 2

\* Keys and string values of the records
KeyA == <<Ascii.a>>
KeyB == <<Ascii.b>>
TextOne == String(<<Ascii.one>>)
TextTwo == String(<<Ascii.two>>)

\* The records a vector is made of: objects of strings with the fields a
\* and b, one with a number, one with its fields in the other order, one
\* without the field b, and a value that is no object
RowChoices ==
    { Object(<<<<KeyA, TextOne>>, <<KeyB, TextTwo>>>>),
      Object(<<<<KeyA, TextTwo>>, <<KeyB, TextOne>>>>),
      Object(<<<<KeyA, Number(1)>>, <<KeyB, TextTwo>>>>),
      Object(<<<<KeyB, TextOne>>, <<KeyA, TextTwo>>>>),
      Object(<<<<KeyA, TextOne>>>>),
      Number(1) }

RECURSIVE Vectors(_)
Vectors(n) ==
    IF n = 0 THEN {<<>>}
    ELSE Vectors(n - 1)
           \cup {Append(v, r) : v \in {u \in Vectors(n - 1) : Len(u) = n - 1},
                                r \in RowChoices}

\* &obj[k]: the value of the key k in an object that has it
Lookup(obj, k) ==
    obj.fields[CHOOSE j \in 1..Len(obj.fields) : obj.fields[j][1] = k][2]

\* match v.as_str() { Some(s) => s, None => serde_json::to_string(v) }: the
\* text of a string, the digits of a number
FieldText(v) ==
    IF v.kind = "string" THEN v.text ELSE <<Ascii.zero + v.num>>

\* writer.serialize(row): the fields separated by the writer's delimiter,
\* the comma, and ended by a line feed
RECURSIVE Joined(_)
Joined(fields) ==
    IF Len(fields) = 0 THEN <<>>
    ELSE IF Len(fields) = 1 THEN fields[1]
    ELSE fields[1] \o <<Ascii.comma>> \o Joined(Tail(fields))

WriteLine(fields) == Joined(fields) \o <<Ascii.nl>>

\* The row of one value under the header
RowOf(value, header) ==
    WriteLine([j \in 1..Len(header) |-> FieldText(Lookup(value, header[j]))])

RECURSIVE RowsOf(_, _)
RowsOf(vals, header) ==
    IF vals = <<>> THEN <<>>
    ELSE RowOf(Head(vals), header) \o RowsOf(Tail(vals), header)

\* Csv::write with no header row
CsvEncodeNoHeader(vals) == RowsOf(vals, Keys(vals[1]))

\* Csv::write when it succeeds: the header row, the keys of the first
\* record, then one row for each record
CsvEncode(vals) ==
    WriteLine(Keys(vals[1])) \o RowsOf(vals, Keys(vals[1]))

InitCsv ==
    /\ cpc = "write"
    /\ cfg \in {[delimiter |-> Ascii.comma], [delimiter |-> Ascii.tab]}
    /\ wvalues \in Vectors(MaxRows)
    /\ wstatus = "none"
    /\ wbytes = <<>>
    /\ reread = None
    /\ ReaderIdle
    /\ RunIdle
    /\ ProcIdle
    /\ GuessIdle
    /\ ActIdle

\* format.write(values) of the Csv format
CsvWrite ==
    /\ cpc = "write"
    /\ wstatus' = WriteOutcome("csv", wvalues)
    /\ IF WriteOutcome("csv", wvalues) = "ok"
       THEN wbytes' = CsvEncode(wvalues) /\ cpc' = "parse"
       ELSE wbytes' = <<>> /\ cpc' = "done"
    /\ UNCHANGED <<cfg, wvalues, reread, readerVars, runVars, procVars, guessVars, actVars>>

\* format.parse(reader) of the same Csv format on what write produced
CsvReparse ==
    /\ cpc = "parse"
    /\ reread' = Some(CsvParse(wbytes, cfg))
    /\ cpc' = "done"
    /\ UNCHANGED <<cfg, wvalues, wstatus, wbytes, readerVars, runVars, procVars, guessVars, actVars>>

NextCsv == CsvWrite \/ CsvReparse

SpecCsv == InitCsv /\ [][NextCsv]_vars

\* Every record is an object and all have the same keys in the same order
SameFields(vals) ==
    \A i \in 1..Len(vals) :
        vals[i].kind = "object" /\ Keys(vals[i]) = Keys(vals[1])

\* Every field of every record is a string
AllStrings(vals) ==
    \A i \in 1..Len(vals) :
        \A j \in 1..Len(vals[i].fields) : vals[i].fields[j][2].kind = "string"

\* C17 as stated: for the Csv format and a non-empty record sequence in
\* which every record is an object with the same ordered field set, decoding
\* what write produced yields the original sequence: same records, same
\* order, same field order, same field values.
C17_RoundTrip ==
    (cpc = "done" /\ wvalues # <<>> /\ SameFields(wvalues)) =>
        /\ wstatus = "ok"
        /\ reread = Some(ParseOk(wvalues))

\* C17 as amended: the same, for records whose field values are all
\* strings and a Csv format that reads with the comma, the delimiter that
\* write always uses.
C17_RoundTripOfStrings ==
    (/\ cpc = "done" /\ wvalues # <<>> /\ SameFields(wvalues)
     /\ AllStrings(wvalues) /\ cfg.delimiter = Ascii.comma) =>
        /\ wstatus = "ok"
        /\ reread = Some(ParseOk(wvalues))

\* C17 witness: two different records of two string fields each have been
\* written and read back
C17_Witness ==
    /\ cpc = "done" /\ Len(wvalues) = 2 /\ wvalues[1] # wvalues[2]
    /\ SameFields(wvalues) /\ AllStrings(wvalues)
    /\ cfg.delimiter = Ascii.comma
    /\ reread = Some(ParseOk(wvalues))

\* ---------------------------------------------------------------------------
\* The path of one record through the closure of process()
\* ---------------------------------------------------------------------------

\* The event is in the trail of record i
Happened(i, ev) == ev \in Range(trail[i])

\* Where the event first is in the trail of record i
When(i, ev) == SetMin({k \in 1..Len(trail[i]) : trail[i][k] = ev})

\* The record is the one whose error is in the slot
Stored(i) == saved # None /\ saved[1].index = i

\* C18: a process is launched for a record only if its render succeeded
\* and, when prompting is enabled, only after its prompt was answered with
\* yes; a declined record launches no process and contributes no error; a
\* record whose render failed launches no process and opens no prompt, and
\* its outcome is a Data error.
C18_RecordPath ==
    \A i \in Records :
        /\ (Happened(i, "launched") \/ Happened(i, "launch_failed")) =>
              /\ trail[i][1] = "rendered"
              /\ ~Happened(i, "no")
              /\ pr.prompt =>
                    /\ Happened(i, "yes")
                    /\ When(i, "prompted") < When(i, "yes")
                    /\ \A k \in 1..Len(trail[i]) :
                          trail[i][k] \in {"launched", "launch_failed"}
                              => When(i, "yes") < k
        /\ Happened(i, "no") =>
              /\ trail[i] = <<"rendered", "prompted", "no">>
              /\ rec[i] = "declined"
              /\ i \notin Range(failures)
              /\ ~Stored(i)
        /\ Happened(i, "render_failed") =>
              /\ trail[i] = <<"render_failed">>
              /\ rec[i] = "failed"
              /\ i \in Range(failures)
              /\ Stored(i) => saved[1].class = "data"

\* C18 witness: process() has returned the Data error of a record whose
\* render failed, after one record was declined and one ran on a yes
C18_Witness ==
    /\ ReturnedErr
    /\ \E i, j, k \in Records :
          /\ Happened(i, "no")
          /\ Happened(j, "yes") /\ Happened(j, "written")
          /\ Happened(k, "render_failed") /\ ret[1].index = k

\* ---------------------------------------------------------------------------
\* What process() has waited for when it returns
\* ---------------------------------------------------------------------------

\* The closure has been entered for the record
Started(i) == trail[i] # <<>>

\* C19: process() returns, with success or with an error, only when no
\* record is in flight: every record whose processing has started has
\* finished its prompt and its process before the return, also when another
\* record has failed; a failure abandons no record that was started.
C19_ReturnsWhenIdle ==
    ret # None =>
        \A i \in Records :
            /\ rec[i] \notin {"prompting", "running", "writing"}
            /\ Started(i) => Done(i)
            /\ Happened(i, "prompted") =>
                  Happened(i, "yes") \/ Happened(i, "no") \/ Happened(i, "prompt_failed")
            /\ Happened(i, "launched") =>
                  Happened(i, "exited") /\ Happened(i, "written")

\* C19 witness: process() has returned the error of one record, and the
\* process of another record, still running when the first one failed, has
\* exited and its output has been written
C19_Witness ==
    /\ ReturnedErr
    /\ \E i \in Records :
          /\ i # ret[1].index
          /\ Happened(i, "after_failure")
          /\ Happened(i, "written")
          /\ rec[i] = "executed"

\* ---------------------------------------------------------------------------
\* A read of the CachedReader that the underlying source fails
\* ---------------------------------------------------------------------------

\* The step is a read in which the underlying reader was called and
\* answered Err(e)
FailedRead ==
    /\ lastcall'.op = "read"
    /\ calls' = calls + 1
    /\ lastcall'.called
    /\ ~lastcall'.ok

\* C20: a read in which the underlying source returns an error returns the
\* error, with no bytes, and leaves the retained buffer and the cursor as
\* they were before the call: the reader after it is the reader before it,
\* and so is every later read or rewind.
C20_FailedReadChangesNothing ==
    [][FailedRead =>
          /\ lastcall'.len = 0
          /\ rd'.buffer = rd.buffer
          /\ rd'.index = rd.index
          /\ rd' = rd
          /\ out' = out]_vars

\* C20 witness: the last read failed in the underlying source, on a reader
\* that has bytes in its buffer and its cursor past them after a rewind
C20_Witness ==
    /\ lastcall.op = "read"
    /\ lastcall.called
    /\ ~lastcall.ok
    /\ nrew >= 1
    /\ Len(rd.buffer) > 0
    /\ rd.index >= Len(rd.buffer)

\* ---------------------------------------------------------------------------
\* SpecGuess: guess_format called several times in a row on one CachedReader
\* ---------------------------------------------------------------------------

\* At most MaxGuesses calls of guess_format are made on one reader
MaxGuesses == 3

\* The inputs a reader is opened on: the contents of SpecRun, and one that
\* is longer than the header guess_format reads
GuessInputs ==
    {Contents[c] : c \in ContentIds} \cup {SrcData(CACHE_LEN + SrcExtra)}

InitGuess ==
    /\ \E bytes \in GuessInputs : grd = CachedReaderNew(NewSource(bytes))
    /\ gext \in {NoExt, "csv", "json", "tsv"}
    /\ gcsv \in {[delimiter |-> Ascii.comma], [delimiter |-> Ascii.tab]}
    /\ guesses = <<>>
    /\ ReaderIdle
    /\ RunIdle
    /\ ProcIdle
    /\ CsvIdle
    /\ ActIdle

\* One more call of guess_format(&ext, &mut reader, &formats)
DoGuess ==
    /\ Len(guesses) < MaxGuesses
    /\ \E res \in SrcOutcomes(grd.reader, CACHE_LEN) :
         LET g == GuessFormat(gext, grd, gcsv, res)
         IN  /\ grd' = g.rd
             /\ guesses' = Append(guesses,
                                  [format |-> g.format, index |-> g.rd.index,
                                   sniffed |-> g.sniffed,
                                   failed |-> g.sniffed /\ g.answers = None])
    /\ UNCHANGED <<gext, gcsv, readerVars, runVars, procVars, csvVars, actVars>>

NextGuess == DoGuess

SpecGuess == InitGuess /\ [][NextGuess]_vars

\* The read of the call failed
ReadFailedIn(k) == guesses[k].failed

WrittenHeader == CsvRecords(wbytes, Ascii.comma)[1]

\* C22: Csv::write never silently drops a field: when it accepts a record
\* sequence without error, every field of every record is in the output;
\* a field of a later record that the first record lacks is in the header,
\* or the write reports an error.
C22_NoFieldDropped ==
    (cpc # "write" /\ wstatus = "ok") =>
        \A i \in 1..Len(wvalues) :
            Range(Keys(wvalues[i])) \subseteq Range(WrittenHeader)

\* ---------------------------------------------------------------------------
\* The retained buffer of the CachedReader and the reads it serves
\* ---------------------------------------------------------------------------

\* The step is a read made while the cursor is below the buffer's length
ReadInsideBuffer ==
    /\ lastcall'.op = "read"
    /\ calls' = calls + 1
    /\ rd.index < Len(rd.buffer)

\* The bytes of the buffer from the cursor on, n of them at most
BufferFrom(r, n) ==
    SubSeq(r.buffer, r.index + 1, r.index + Min(Len(r.buffer) - r.index, n))

\* C23: in every reachable state, after any reads (of any buffer size,
\* failing ones included) and rewinds, the retained buffer is a prefix of
\* the bytes consumed so far from the underlying source; and a read issued
\* while the cursor is below the buffer's length returns bytes of the
\* buffer, from the cursor on, without calling the underlying source.
C23_BufferIsPrefixAndServes ==
    /\ [](IsPrefix(rd.buffer, Consumed(rd)))
    /\ [][ReadInsideBuffer =>
             /\ ~lastcall'.called
             /\ lastcall'.ok
             /\ rd'.reader = rd.reader
             /\ rd'.buffer = rd.buffer
             /\ out' = out \o BufferFrom(rd, lastcall'.n)
             /\ rd'.index = rd.index + Len(BufferFrom(rd, lastcall'.n))]_vars

\* C23 witness: after a rewind, the last read was served from a buffer that
\* holds fewer bytes than the source has given
C23_Witness ==
    /\ nrew >= 1
    /\ lastcall.op = "read"
    /\ ~lastcall.called
    /\ lastcall.len > 0
    /\ lastcall.before.index < lastcall.before.buffer
    /\ 0 < Len(rd.buffer)
    /\ Len(rd.buffer) < rd.reader.pos

\* ---------------------------------------------------------------------------
\* Termination of process()
\* ---------------------------------------------------------------------------

\* process() has returned Ok(())
ReturnedOk == ret = Some([class |-> "ok", index |-> 0])

\* Every record has been executed, or skipped after a decline
AllDone == \A i \in Records : rec[i] \in {"executed", "declined"}

\* C24: when every prompt is answered in the end, every launched process
\* ends and no record fails, every record of the input reaches Done
\* (executed, or skipped after a decline) and process() returns Ok, whatever
\* the parallelism limit.
C24_EveryRecordDone ==
    [](failures = <<>>) => <>(AllDone /\ ReturnedOk)

\* C24 witness: with two pool threads and prompting, process() has returned
\* Ok after a record was declined and the others were executed
C24_Witness ==
    /\ ReturnedOk
    /\ AllDone
    /\ pr.prompt
    /\ pr.threads >= 2
    /\ Len(pr.kinds) >= 3
    /\ \E i, j \in Records : rec[i] = "declined" /\ rec[j] = "executed"

\* ---------------------------------------------------------------------------
\* SpecAct: Action::run for one record, and what the closure makes of it
\* ---------------------------------------------------------------------------

\* The captured stdout and the captured stderr hold up to MaxCaptured bytes
MaxCaptured == 2

\* The exit statuses of a process that was launched: success, failure, and
\* the highest exit code
ExitStatuses == {0, 1, 255}

\* The first n bytes a process writes
Captured(n) == [i \in 1..n |-> SrcByte(Ascii.a + i)]

\* The commands Action::run is given: one that cannot be launched or
\* captured, and those that can, each with its exit status and its output
Execs ==
    {[launches |-> FALSE, status |-> 0, stdout |-> <<>>, stderr |-> <<>>]}
        \cup {[launches |-> TRUE, status |-> st,
               stdout |-> Captured(n), stderr |-> Captured(m)] :
                  st \in ExitStatuses, n \in 0..MaxCaptured, m \in 0..MaxCaptured}

\* Result<(), Error>
ActOk == Some("ok")
ActErr == Some("err")

\* cmd.capture() taking a non-zero exit status for an error
CaptureOfSuccess(cmd) == cmd.launches /\ cmd.status = 0

\* cmd.capture(): Ok(CaptureData) when the process was started and its
\* output read to the end, whatever its exit status
Capture(cmd) == cmd.launches

InitAct ==
    /\ acmd \in Execs
    /\ apc = "capture"
    /\ aout = <<>>
    /\ aerr = <<>>
    /\ aret = None
    /\ afault = "none"
    /\ aoutcome = "none"
    /\ ReaderIdle
    /\ RunIdle
    /\ ProcIdle
    /\ CsvIdle
    /\ GuessIdle

\* let result = cmd.capture()?;
DoCapture ==
    /\ apc = "capture"
    /\ IF Capture(acmd)
       THEN apc' = "stdout" /\ UNCHANGED <<aret, afault>>
       ELSE apc' = "returned" /\ aret' = ActErr /\ afault' = "capture"
    /\ UNCHANGED <<acmd, aout, aerr, aoutcome,
                   readerVars, runVars, procVars, csvVars, guessVars>>

\* std::io::stdout().write_all(&result.stdout)?; a write that fails has put
\* out some of the bytes, k of them
WriteStdout ==
    /\ apc = "stdout"
    /\ \/ /\ aout' = acmd.stdout
          /\ apc' = "stderr"
          /\ UNCHANGED <<aret, afault>>
       \/ \E k \in 0..Len(acmd.stdout) :
             /\ aout' = SubSeq(acmd.stdout, 1, k)
             /\ apc' = "returned"
             /\ aret' = ActErr
             /\ afault' = "stdout"
    /\ UNCHANGED <<acmd, aerr, aoutcome,
                   readerVars, runVars, procVars, csvVars, guessVars>>

\* std::io::stderr().write_all(&result.stderr)?; Ok(())
WriteStderr ==
    /\ apc = "stderr"
    /\ \/ /\ aerr' = acmd.stderr
          /\ aret' = ActOk
          /\ UNCHANGED afault
       \/ \E k \in 0..Len(acmd.stderr) :
             /\ aerr' = SubSeq(acmd.stderr, 1, k)
             /\ aret' = ActErr
             /\ afault' = "stderr"
    /\ apc' = "returned"
    /\ UNCHANGED <<acmd, aout, aoutcome,
                   readerVars, runVars, procVars, csvVars, guessVars>>

\* if let Err(e) = action.run(cmd) { return Err(EachError::Data {..}) } Ok(())
CloseRecord ==
    /\ apc = "returned"
    /\ aoutcome' = IF aret = ActErr THEN "data" ELSE "ok"
    /\ apc' = "done"
    /\ UNCHANGED <<acmd, aout, aerr, aret, afault,
                   readerVars, runVars, procVars, csvVars, guessVars>>

NextAct == DoCapture \/ WriteStdout \/ WriteStderr \/ CloseRecord

SpecAct == InitAct /\ [][NextAct]_vars

\* C25: the exit status of a launched process does not affect the outcome of
\* its record: when the process was launched and captured, Action::run
\* returns Ok whatever the status, its stdout and stderr are forwarded
\* whole, and the record contributes no error; the record is an execution
\* error, a Data error, only when the launch or capture failed or a write
\* of the output did.
C25_ExitStatusIgnored ==
    apc = "done" =>
        /\ (acmd.launches /\ afault = "none") =>
              /\ aret = ActOk
              /\ aoutcome = "ok"
              /\ aout = acmd.stdout
              /\ aerr = acmd.stderr
        /\ aoutcome = "data" <=> afault \in {"capture", "stdout", "stderr"}
        /\ afault = "capture" <=> ~acmd.launches
        /\ aoutcome \in {"ok", "data"}

\* C25 witness: a process that wrote to stdout and to stderr and exited with
\* a non-zero status has been run, and its record is no error
C25_Witness ==
    /\ apc = "done"
    /\ acmd.launches
    /\ acmd.status # 0
    /\ aoutcome = "ok"
    /\ aout = acmd.stdout /\ aout # <<>>
    /\ aerr = acmd.stderr /\ aerr # <<>>

====
